---- MODULE Spec2Model ----
(***************************************************************************)
(* Model of ml_logic.py: the keyword risk check, the mood classifier that  *)
(* maps the remote service's reply onto the 7 mood buckets, the two        *)
(* response composers and the trend aggregation.                           *)
(*                                                                         *)
(* A Python str is a sequence of one-character strings, so that lower(),   *)
(* strip() and the `in` substring test are computed and not assumed.       *)
(* Each public function is one action: the whole call, from its arguments  *)
(* to its return value or the exception it lets escape.                    *)
(***************************************************************************)
EXTENDS Integers, Sequences, FiniteSets, TLC

VARIABLES
    model,             \* the module global `model`: "None" or "GenerativeModel"
    full_df,           \* the merged affirmation corpus, a sequence of rows
    op,                \* the function called last ("startup" before any call)
    user_text,         \* its user_text argument
    generate,          \* how model.generate_content behaves for that call
    check_ins,         \* the check-in records the trend aggregation is fed
    outcome,           \* "returned" or "raised"
    result,            \* the value returned (or the exception that escaped)
    classifier_calls,  \* calls of classify_mood_with_gemini made by that call
    remote_calls       \* calls of model.generate_content made by that call

vars == <<model, full_df, op, user_text, generate, check_ins, outcome, result,
          classifier_calls, remote_calls>>

(***************************************************************************)
(* Python str operations                                                   *)
(***************************************************************************)
ascii_uppercase == <<"A","B","C","D","E","F","G","H","I","J","K","L","M","N","O","P","Q","R","S","T","U","V","W","X","Y","Z">>
ascii_lowercase == <<"a","b","c","d","e","f","g","h","i","j","k","l","m","n","o","p","q","r","s","t","u","v","w","x","y","z">>

lower_char(c) ==
    IF \E i \in DOMAIN ascii_uppercase : ascii_uppercase[i] = c
    THEN ascii_lowercase[CHOOSE i \in DOMAIN ascii_uppercase : ascii_uppercase[i] = c]
    ELSE c

\* s.lower()
str_lower(s) == [i \in 1..Len(s) |-> lower_char(s[i])]

is_space(c) == c \in {" ", "\t", "\n"}

RECURSIVE str_lstrip(_)
str_lstrip(s) ==
    IF s # <<>> /\ is_space(Head(s)) THEN str_lstrip(Tail(s)) ELSE s

RECURSIVE str_rstrip(_)
str_rstrip(s) ==
    IF s # <<>> /\ is_space(s[Len(s)])
    THEN str_rstrip(SubSeq(s, 1, Len(s) - 1))
    ELSE s

\* s.strip()
str_strip(s) == str_rstrip(str_lstrip(s))

\* sub in s
str_in(sub, s) ==
    \E i \in 0..(Len(s) - Len(sub)) : SubSeq(s, i + 1, i + Len(sub)) = sub

(***************************************************************************)
(* The mood buckets and the lookup tables                                  *)
(***************************************************************************)
Happy   == <<"H","a","p","p","y">>
Sad     == <<"S","a","d">>
Anxious == <<"A","n","x","i","o","u","s">>
Angry   == <<"A","n","g","r","y">>
Fearful == <<"F","e","a","r","f","u","l">>
Urgent  == <<"U","r","g","e","n","t">>
Neutral == <<"N","e","u","t","r","a","l">>

\* The dict keeps its insertion order: a sequence of <<key, value>> items.
mood_to_playlist_map ==
    << <<Happy,   "https://open.spotify.com/playlist/37i9dQZF1DX1g0fEwBUAmQ">>,
       <<Sad,     "https://open.spotify.com/playlist/37i9dQZF1DWSqBruwoIXjL">>,
       <<Anxious, "https://open.spotify.com/playlist/37i9dQZF1DWUvQoIOFMFUT">>,
       <<Angry,   "https://open.spotify.com/playlist/37i9dQZF1D Sextonvr0Mihs">>,
       <<Fearful, "https://open.spotify.com/playlist/37i9dQZF1DWZrc3MTCkPzn">>,
       <<Urgent,  "https://open.spotify.com/playlist/37i9dQZF1DWZrc3MTCkPzn">>,
       <<Neutral, "https://open.spotify.com/playlist/37i9dQZF1DX8Uebhn9wzrS">> >>

\* d.keys()
dict_keys(d) == [i \in DOMAIN d |-> d[i][1]]

\* key in d
dict_has(d, key) == \E i \in DOMAIN d : d[i][1] = key

\* d[key]
dict_item(d, key) == d[CHOOSE i \in DOMAIN d : d[i][1] = key][2]

\* A lookup under a key the dict never holds, so that the default answers.
dict_get_missing_key(d, key, default) ==
    IF dict_has(d, <<"mood_bucket">>) THEN dict_item(d, <<"mood_bucket">>) ELSE default

\* d.get(key, default)
dict_get(d, key, default) == IF dict_has(d, key) THEN dict_item(d, key) ELSE default

mood_bucket_map ==
    [happy |-> Happy, excited |-> Happy, cheerful |-> Happy, joyful |-> Happy,
     perky |-> Happy, sunny |-> Happy, content |-> Happy,
     sad |-> Sad, depressed |-> Sad, lonely |-> Sad, gloomy |-> Sad,
     heartbroken |-> Sad, melancholy |-> Sad, dejected |-> Sad,
     anxious |-> Anxious, stressed |-> Anxious, overwhelmed |-> Anxious,
     tense |-> Anxious, nervous |-> Anxious, confused |-> Anxious,
     angry |-> Angry, hostile |-> Angry, resentful |-> Angry, betrayed |-> Angry,
     jealous |-> Angry, agitated |-> Angry,
     fearful |-> Fearful, scared |-> Fearful, terrified |-> Fearful,
     apprehensive |-> Fearful, intimidated |-> Fearful,
     suicidal |-> Urgent, horrified |-> Urgent, panicked |-> Urgent]

\* moods_df['mood_label'].map(mood_bucket_map).fillna('Neutral'), one label
bucket_of_label(mood_label) ==
    IF mood_label \in DOMAIN mood_bucket_map
    THEN mood_bucket_map[mood_label]
    ELSE Neutral

(***************************************************************************)
(* The data files read at startup.  A cell of the text column is a str, or *)
(* the float NaN that read_csv gives an empty field.                       *)
(***************************************************************************)
Str(chars) == [type |-> "str", chars |-> chars]
NaN == [type |-> "float", chars |-> <<>>]

\* rows of moods.csv (the mood_label column)
MoodLabelPool == <<"joyful", "suicidal", "bored">>

\* rows of affirmations.csv
AffirmationPool ==
    << [mood_tag |-> "joyful",   text |-> Str(<<" ","Y","o","u"," ","s","h","i","n","e","."," ">>), safety_flag |-> "safe"],
       [mood_tag |-> "joyful",   text |-> Str(<<"K","e","e","p"," ","g","o","i","n","g">>),   safety_flag |-> "flag"],
       [mood_tag |-> "suicidal", text |-> Str(<<"S","t","a","y",".","\n">>),      safety_flag |-> "flag"],
       [mood_tag |-> "bored",    text |-> NaN,                   safety_flag |-> "safe"] >>

\* the sub-sequences of a pool: the files a startup may find
RECURSIVE Pick(_, _, _)
Pick(pool, keep, i) ==
    IF i > Len(pool) THEN <<>>
    ELSE (IF i \in keep THEN <<pool[i]>> ELSE <<>>) \o Pick(pool, keep, i + 1)

SubSequences(pool) == { Pick(pool, keep, 1) : keep \in SUBSET DOMAIN pool }

\* one row of moods_df joined with its matching rows of affirmations_df
RECURSIVE merge_row(_, _, _)
merge_row(mood_label, affirmations_df, j) ==
    IF j > Len(affirmations_df) THEN <<>>
    ELSE (IF affirmations_df[j].mood_tag = mood_label
          THEN << [mood_label  |-> mood_label,
                   mood_bucket |-> bucket_of_label(mood_label),
                   mood_tag    |-> affirmations_df[j].mood_tag,
                   text        |-> affirmations_df[j].text,
                   safety_flag |-> affirmations_df[j].safety_flag] >>
          ELSE <<>>)
         \o merge_row(mood_label, affirmations_df, j + 1)

\* pd.merge(moods_df, affirmations_df, left_on='mood_label', right_on='mood_tag')
RECURSIVE merge(_, _, _)
merge(moods_df, affirmations_df, i) ==
    IF i > Len(moods_df) THEN <<>>
    ELSE merge_row(moods_df[i], affirmations_df, 1) \o merge(moods_df, affirmations_df, i + 1)

(***************************************************************************)
(* detect_risk                                                             *)
(***************************************************************************)
risk_keywords ==
    << <<"s","u","i","c","i","d","e">>, <<"k","i","l","l"," ","m","y","s","e","l","f">>, <<"h","u","r","t"," ","m","y","s","e","l","f">>, <<"e","n","d"," ","m","y"," ","l","i","f","e">>, <<"h","o","p","e","l","e","s","s">> >>

\* The keyword scan without lower(): it misses "SUICIDE".
RECURSIVE detect_risk_case_sensitive_from(_, _)
detect_risk_case_sensitive_from(text, k) ==
    IF k > Len(risk_keywords) THEN "low"
    ELSE IF str_in(risk_keywords[k], text) THEN "high"
    ELSE detect_risk_case_sensitive_from(text, k + 1)

detect_risk_case_sensitive(text) == detect_risk_case_sensitive_from(text, 1)

RECURSIVE detect_risk_from(_, _)
detect_risk_from(text, k) ==
    IF k > Len(risk_keywords) THEN "low"
    ELSE IF str_in(risk_keywords[k], str_lower(text)) THEN "high"
    ELSE detect_risk_from(text, k + 1)

detect_risk(text) == detect_risk_from(text, 1)

(***************************************************************************)
(* classify_mood_with_gemini                                               *)
(*                                                                         *)
(* gen is what model.generate_content does when it is called:              *)
(*   [kind |-> "text", text |-> s]  a response whose .text is s            *)
(*   [kind |-> "error"]             the call raises (network, auth)        *)
(*   [kind |-> "timeout"]           the call raises on its deadline        *)
(*   [kind |-> "unreadable"]        the response's .text raises            *)
(***************************************************************************)
mood_buckets == dict_keys(mood_to_playlist_map)

\* The fallback deciding by position in the reply instead of list order.
first_bucket_by_position(detected_bucket, k) ==
    LET found == { b \in DOMAIN mood_buckets : str_in(mood_buckets[b], detected_bucket) }
        at(b) == CHOOSE i \in 0..Len(detected_bucket) :
                   /\ SubSeq(detected_bucket, i + 1, i + Len(mood_buckets[b])) = mood_buckets[b]
                   /\ \A j \in 0..(i - 1) :
                        SubSeq(detected_bucket, j + 1, j + Len(mood_buckets[b])) # mood_buckets[b]
    IN  IF found = {} THEN Neutral
        ELSE mood_buckets[CHOOSE b \in found : \A c \in found : at(b) <= at(c)]

\* for bucket in mood_buckets: if bucket in detected_bucket: return bucket
RECURSIVE first_bucket_in(_, _)
first_bucket_in(detected_bucket, k) ==
    IF k > Len(mood_buckets) THEN Neutral
    ELSE IF str_in(mood_buckets[k], detected_bucket) THEN mood_buckets[k]
    ELSE first_bucket_in(detected_bucket, k + 1)

\* The blank check without strip(): only the empty string is blank.
is_blank_empty_only(text) == text = <<>>

\* not user_text.strip()
is_blank(text) == str_strip(text) = <<>>

\* the body of the try block: the remote call and the parse of its reply
try_classify(gen) ==
    IF gen.kind # "text"
    THEN [raised |-> TRUE, ret |-> Neutral]
    ELSE LET detected_bucket == str_strip(gen.text)
         IN  [raised |-> FALSE,
              ret    |-> IF \E k \in DOMAIN mood_buckets : mood_buckets[k] = detected_bucket
                         THEN detected_bucket
                         ELSE first_bucket_in(detected_bucket, 1)]

\* The classifier without its except clause: a remote failure escapes.
classify_without_except(text, gen) ==
    IF model = "None"
    THEN [raised |-> FALSE, ret |-> Neutral, remote_calls |-> 0]
    ELSE IF is_blank(text)
    THEN [raised |-> FALSE, ret |-> Neutral, remote_calls |-> 0]
    ELSE [raised |-> try_classify(gen).raised, ret |-> try_classify(gen).ret,
          remote_calls |-> 1]

classify_mood_with_gemini(text, gen) ==
    IF model = "None"
    THEN [raised |-> FALSE, ret |-> Neutral, remote_calls |-> 0]
    ELSE IF is_blank(text)
    THEN [raised |-> FALSE, ret |-> Neutral, remote_calls |-> 0]
    ELSE [raised |-> FALSE,
          ret    |-> IF try_classify(gen).raised THEN Neutral ELSE try_classify(gen).ret,
          remote_calls |-> 1]

(***************************************************************************)
(* get_affirmation_for_text                                                *)
(***************************************************************************)
helpline_response ==
    [mood_bucket |-> Urgent,
     risk        |-> "high",
     action      |-> "show_helpline",
     affirmation |-> <<"I","t"," ","s","o","u","n","d","s"," ","l","i","k","e"," ","y","o","u","'","r","e"," ","g","o","i","n","g"," ","t","h","r","o","u","g","h"," ","a"," ","l","o","t","."," ","P","l","e","a","s","e"," ","k","n","o","w"," ","t","h","a","t"," ","h","e","l","p"," ","i","s"," ","a","v","a","i","l","a","b","l","e"," ","a","n","d"," ","y","o","u"," ","a","r","e"," ","n","o","t"," ","a","l","o","n","e",".">>,
     helpline    |-> [name |-> "National Suicide Prevention Lifeline", number |-> "988"],
     safety_flag |-> "flag"]

generic_affirmation == <<"T","h","a","n","k"," ","y","o","u"," ","f","o","r"," ","s","h","a","r","i","n","g","."," ","R","e","m","e","m","b","e","r"," ","t","o"," ","b","e"," ","k","i","n","d"," ","t","o"," ","y","o","u","r","s","e","l","f"," ","t","o","d","a","y",".">>

\* The earlier revision: an Urgent bucket or a flagged affirmation also
\* substitutes the helpline response.
affirmation_from_escalating(mood_bucket, selected_affirmation, calls) ==
    IF mood_bucket = Urgent \/ selected_affirmation.safety_flag = "flag"
    THEN [raised |-> FALSE, ret |-> helpline_response,
          classifier_calls |-> 1, remote_calls |-> calls]
    ELSE IF selected_affirmation.text.type = "str"
    THEN [raised |-> FALSE,
          ret |-> [mood_bucket |-> mood_bucket,
                   affirmation |-> str_strip(selected_affirmation.text.chars),
                   safety_flag |-> selected_affirmation.safety_flag],
          classifier_calls |-> 1, remote_calls |-> calls]
    ELSE [raised |-> TRUE, ret |-> [exception |-> "AttributeError"],
          classifier_calls |-> 1, remote_calls |-> calls]

\* the return (or the exception) once random.choice picked selected_affirmation
affirmation_from(mood_bucket, selected_affirmation, calls) ==
    IF selected_affirmation.text.type = "str"
    THEN [raised |-> FALSE,
          ret |-> [mood_bucket |-> mood_bucket,
                   affirmation |-> str_strip(selected_affirmation.text.chars),
                   safety_flag |-> selected_affirmation.safety_flag],
          classifier_calls |-> 1, remote_calls |-> calls]
    ELSE \* 'float' object has no attribute 'strip'
         [raised |-> TRUE, ret |-> [exception |-> "AttributeError"],
          classifier_calls |-> 1, remote_calls |-> calls]

\* The set of ways one call can end: one per row random.choice may pick.
get_affirmation_for_text(text, gen) ==
    IF detect_risk(text) = "high"
    THEN { [raised |-> FALSE, ret |-> helpline_response,
            classifier_calls |-> 0, remote_calls |-> 0] }
    ELSE LET c == classify_mood_with_gemini(text, gen)
             InBucket(row) == row.mood_bucket = c.ret
             possible_affirmations == SelectSeq(full_df, InBucket)
         IN  IF c.raised
             THEN { [raised |-> TRUE, ret |-> [exception |-> "Exception"],
                     classifier_calls |-> 1, remote_calls |-> c.remote_calls] }
             ELSE IF possible_affirmations # <<>>
             THEN { affirmation_from(c.ret, possible_affirmations[k], c.remote_calls) :
                      k \in DOMAIN possible_affirmations }
             ELSE { [raised |-> FALSE,
                     ret |-> [mood_bucket |-> c.ret,
                              affirmation |-> generic_affirmation,
                              safety_flag |-> "safe"],
                     classifier_calls |-> 1, remote_calls |-> c.remote_calls] }

(***************************************************************************)
(* get_music_recommendation                                                *)
(***************************************************************************)
get_music_recommendation(text, gen) ==
    LET c == classify_mood_with_gemini(text, gen)
    IN  IF c.raised
        THEN [raised |-> TRUE, ret |-> [exception |-> "Exception"],
              classifier_calls |-> 1, remote_calls |-> c.remote_calls]
        ELSE [raised |-> FALSE,
              ret |-> [mood |-> c.ret,
                       playlist_url |-> dict_get(mood_to_playlist_map, c.ret,
                                                 dict_item(mood_to_playlist_map, Neutral))],
              classifier_calls |-> 1, remote_calls |-> c.remote_calls]

(***************************************************************************)
(* get_mood_trends                                                         *)
(*                                                                         *)
(* A date is <<year, month, day>>, what pd.to_datetime and .dt.date make   *)
(* of the 'YYYY-MM-DD' strings.                                            *)
(***************************************************************************)
date(y, m, d) == <<y, m, d>>

fake_check_ins ==
    << [date |-> date(2025, 9, 12), mood_bucket |-> Anxious],
       [date |-> date(2025, 9, 13), mood_bucket |-> Sad],
       [date |-> date(2025, 9, 14), mood_bucket |-> Happy],
       [date |-> date(2025, 9, 14), mood_bucket |-> Happy],
       [date |-> date(2025, 9, 15), mood_bucket |-> Anxious],
       [date |-> date(2025, 9, 16), mood_bucket |-> Happy],
       [date |-> date(2025, 9, 17), mood_bucket |-> Neutral],
       [date |-> date(2025, 9, 18), mood_bucket |-> Anxious] >>

\* An ordering of dates that forgets the year, as an ordering of the
\* '%b %d' labels would.
date_before_ignoring_year(a, b) ==
    \/ a[2] < b[2]
    \/ a[2] = b[2] /\ a[3] < b[3]

\* a < b on datetime.date
date_before(a, b) ==
    \/ a[1] < b[1]
    \/ a[1] = b[1] /\ a[2] < b[2]
    \/ a[1] = b[1] /\ a[2] = b[2] /\ a[3] < b[3]

\* ord(c), for the letters
ord(c) == CHOOSE i \in DOMAIN (ascii_uppercase \o ascii_lowercase) :
            (ascii_uppercase \o ascii_lowercase)[i] = c

\* a < b on str
RECURSIVE str_before(_, _)
str_before(a, b) ==
    IF b = <<>> THEN FALSE
    ELSE IF a = <<>> THEN TRUE
    ELSE IF Head(a) # Head(b) THEN ord(Head(a)) < ord(Head(b))
    ELSE str_before(Tail(a), Tail(b))

\* the sorted group keys of groupby (sort=True): the dates ...
RECURSIVE sorted_dates(_)
sorted_dates(S) ==
    IF S = {} THEN <<>>
    ELSE LET first == CHOOSE x \in S : \A y \in S : ~date_before(y, x)
         IN  <<first>> \o sorted_dates(S \ {first})

\* ... and the mood buckets
RECURSIVE sorted_strs(_)
sorted_strs(S) ==
    IF S = {} THEN <<>>
    ELSE LET first == CHOOSE x \in S : \A y \in S : ~str_before(y, x)
         IN  <<first>> \o sorted_strs(S \ {first})

\* .size() of one group
group_size(trends_df, day, mood) ==
    Cardinality({ k \in DOMAIN trends_df :
                    trends_df[k].date = day /\ trends_df[k].mood_bucket = mood })

month_abbr ==
    <<"Jan", "Feb", "Mar", "Apr", "May", "Jun", "Jul", "Aug", "Sep", "Oct", "Nov", "Dec">>

\* date.strftime('%b %d'): the month's abbreviation and the two digits of
\* the day; the year is dropped
strftime_b_d(day) == <<month_abbr[day[2]], day[3] \div 10, day[3] % 10>>

\* lines 161-174 on the records in check_ins
get_mood_trends(userId, period) ==
    LET trends_df == check_ins
        index   == sorted_dates({ trends_df[k].date : k \in DOMAIN trends_df })
        columns == sorted_strs({ trends_df[k].mood_bucket : k \in DOMAIN trends_df })
        \* daily_counts[mood].tolist(), 0 where unstack filled
        series(mood) == [i \in DOMAIN index |-> group_size(trends_df, index[i], mood)]
    IN  [userId |-> userId,
         period |-> period,
         trendData |->
            [labels   |-> [i \in DOMAIN index |-> strftime_b_d(index[i])],
             datasets |-> [j \in DOMAIN columns |->
                             [label |-> columns[j], data |-> series(columns[j])]]],
         averageSentimentScore |-> "0.65"]

(***************************************************************************)
(* The inputs                                                              *)
(***************************************************************************)
UserTexts ==
    { <<>>, <<" ","\t","\n">>, <<"I"," ","f","e","e","l"," ","f","i","n","e"," ","t","o","d","a","y",".">>,
      <<"s","u","i","c","i","d","e">>, <<"S","U","I","C","I","D","E">>, <<"I"," ","w","a","n","t"," ","t","o"," ","K","i","l","l"," ","M","y","s","e","l","f",".">>, <<"h","u","r","t"," ","m","y","s","e","l","f","\n">>,
      <<"E","n","d"," ","m","y"," ","L","I","F","E"," ","n","o","w">>, <<"s","o"," ","h","o","p","e","L","e","s","s","l","y"," ","l","o","s","t">>,
      <<"s","u","i","c","i","d">>, <<"h","o","p","e"," ","l","e","s","s">>, <<"k","i","l","l"," "," ","m","y","s","e","l","f">> }

Replies ==
    { Happy, Sad, Anxious, Angry, Fearful, Urgent, Neutral,
      <<" ","A","n","g","r","y","\n">>, <<"I"," ","t","h","i","n","k"," ","t","h","i","s"," ","i","s"," ","A","n","g","r","y"," ","a","c","t","u","a","l","l","y">>,
      <<"B","l","o","r","p">>, <<"a","n","g","r","y">>, <<>>,
      <<"S","a","d",","," ","n","o","t"," ","H","a","p","p","y">>, <<"U","r","g","e","n","t"," ","o","r"," ","A","n","x","i","o","u","s">> }

(***************************************************************************)
(* The state machine                                                       *)
(***************************************************************************)
RemoteBehaviours ==
    { [kind |-> "text", text |-> r] : r \in Replies }
    \cup { [kind |-> "error"], [kind |-> "timeout"], [kind |-> "unreadable"] }

\* the check-in records a data source may hold, beside the built-in ones
CheckInDates == { date(2024, 12, 31), date(2025, 9, 14), date(2025, 9, 15), date(2025, 10, 2) }
CheckInMoods == { Happy, Anxious }
CheckIns == [date : CheckInDates, mood_bucket : CheckInMoods]

\* the longest sequence of recorded check-ins
MaxCheckIns == 3

UserIds == { "demo_user" }
Periods == { "7d", "30d" }

(***************************************************************************)
(* The state machine                                                       *)
(***************************************************************************)
no_result == [none |-> TRUE]

\* After a successful startup: the key was set (else sys.exit), model is the
\* GenerativeModel, or still None when configuring raised, and both files
\* were read and merged.
Startup ==
    /\ model \in {"None", "GenerativeModel"}
    /\ \E moods_df \in SubSequences(MoodLabelPool),
          affirmations_df \in SubSequences(AffirmationPool) :
          full_df = merge(moods_df, affirmations_df, 1)
    /\ op = "startup"
    /\ user_text = <<>>
    /\ generate = [kind |-> "error"]
    /\ outcome = "returned"
    /\ result = no_result
    /\ classifier_calls = 0
    /\ remote_calls = 0

Init ==
    /\ Startup
    /\ check_ins = fake_check_ins

\* The remote service is not under the program's control: between calls it
\* may turn to any behaviour.
RemoteService ==
    \E gen \in RemoteBehaviours :
        /\ generate' = gen
        /\ op' = "remote_service"
        /\ user_text' = <<>>
        /\ outcome' = "returned"
        /\ result' = no_result
        /\ classifier_calls' = 0
        /\ remote_calls' = 0
        /\ UNCHANGED <<model, full_df, check_ins>>

ClassifyMoodWithGemini ==
    \E text \in UserTexts :
        LET c == classify_mood_with_gemini(text, generate)
        IN  /\ op' = "classify_mood_with_gemini"
            /\ user_text' = text
            /\ outcome' = IF c.raised THEN "raised" ELSE "returned"
            /\ result' = IF c.raised THEN [exception |-> "Exception"]
                                     ELSE [mood_bucket |-> c.ret]
            /\ classifier_calls' = 1
            /\ remote_calls' = c.remote_calls
            /\ UNCHANGED <<model, full_df, generate, check_ins>>

GetAffirmationForText ==
    \E text \in UserTexts :
        \E r \in get_affirmation_for_text(text, generate) :
            /\ op' = "get_affirmation_for_text"
            /\ user_text' = text
            /\ outcome' = IF r.raised THEN "raised" ELSE "returned"
            /\ result' = r.ret
            /\ classifier_calls' = r.classifier_calls
            /\ remote_calls' = r.remote_calls
            /\ UNCHANGED <<model, full_df, generate, check_ins>>

GetMusicRecommendation ==
    \E text \in UserTexts :
        LET r == get_music_recommendation(text, generate)
        IN  /\ op' = "get_music_recommendation"
            /\ user_text' = text
            /\ outcome' = IF r.raised THEN "raised" ELSE "returned"
            /\ result' = r.ret
            /\ classifier_calls' = r.classifier_calls
            /\ remote_calls' = r.remote_calls
            /\ UNCHANGED <<model, full_df, generate, check_ins>>

GetMoodTrends ==
    \E userId \in UserIds, period \in Periods :
        /\ op' = "get_mood_trends"
        /\ user_text' = <<>>
        /\ outcome' = "returned"
        /\ result' = get_mood_trends(userId, period)
        /\ classifier_calls' = 0
        /\ remote_calls' = 0
        /\ UNCHANGED <<model, full_df, generate, check_ins>>

Next ==
    \/ RemoteService
    \/ ClassifyMoodWithGemini
    \/ GetAffirmationForText
    \/ GetMusicRecommendation
    \/ GetMoodTrends

Spec == Init /\ [][Next]_vars

(***************************************************************************)
(* The trend aggregation fed from a data source instead of the built-in    *)
(* records: check-ins are recorded one at a time and aggregated.           *)
(***************************************************************************)
InitTrends ==
    /\ Startup
    /\ check_ins \in {fake_check_ins} \cup { <<c>> : c \in CheckIns }

RecordCheckIn ==
    \E c \in CheckIns :
        /\ Len(check_ins) < MaxCheckIns
        /\ check_ins' = Append(check_ins, c)
        /\ op' = "record_check_in"
        /\ outcome' = "returned"
        /\ result' = no_result
        /\ UNCHANGED <<model, full_df, user_text, generate, classifier_calls, remote_calls>>

NextTrends ==
    \/ RecordCheckIn
    \/ GetMoodTrends

SpecTrends == InitTrends /\ [][NextTrends]_vars

(***************************************************************************)
(* Vocabulary of the properties, stated without the operators above.       *)
(***************************************************************************)
MoodCategory == { Happy, Sad, Anxious, Angry, Fearful, Urgent, Neutral }

CategoryOrder == << Happy, Sad, Anxious, Angry, Fearful, Urgent, Neutral >>

RiskPhrases ==
    { <<"s","u","i","c","i","d","e">>, <<"k","i","l","l"," ","m","y","s","e","l","f">>, <<"h","u","r","t"," ","m","y","s","e","l","f">>, <<"e","n","d"," ","m","y"," ","l","i","f","e">>, <<"h","o","p","e","l","e","s","s">> }

\* c is the letter l, in either case
SameLetter(c, l) ==
    \/ c = l
    \/ \E i \in DOMAIN ascii_lowercase : ascii_lowercase[i] = l /\ ascii_uppercase[i] = c

\* phrase occurs in text at some position, in any letter case
OccursAnyCase(phrase, text) ==
    \E at \in 0..(Len(text) - Len(phrase)) :
        \A j \in DOMAIN phrase : SameLetter(text[at + j], phrase[j])

ContainsRiskPhrase(text) == \E phrase \in RiskPhrases : OccursAnyCase(phrase, text)

\* name occurs in text at some position, letter for letter
Occurs(name, text) ==
    \E at \in 0..(Len(text) - Len(name)) :
        \A j \in DOMAIN name : text[at + j] = name[j]

Whitespace == { " ", "\t", "\n" }

Blank(text) == \A i \in DOMAIN text : text[i] \in Whitespace

\* text from its first to its last character that is not whitespace
Trimmed(text) ==
    LET solid == { i \in DOMAIN text : text[i] \notin Whitespace }
    IN  IF solid = {} THEN <<>>
        ELSE SubSeq(text, CHOOSE i \in solid : \A j \in solid : i <= j,
                          CHOOSE i \in solid : \A j \in solid : j <= i)

\* the category a reply stands for
CategoryOfReply(reply) ==
    LET named == { k \in DOMAIN CategoryOrder : Occurs(CategoryOrder[k], reply) }
    IN  IF Trimmed(reply) \in MoodCategory THEN Trimmed(reply)
        ELSE IF named # {} THEN CategoryOrder[CHOOSE k \in named : \A n \in named : k <= n]
        ELSE Neutral

\* the category the Mood Classifier gives the call's text, the remote
\* service behaving as `generate`
Classified ==
    IF model = "None" \/ Blank(user_text) \/ generate.kind # "text"
    THEN Neutral
    ELSE CategoryOfReply(generate.text)

RecordsOf(category) == { k \in DOMAIN full_df : full_df[k].mood_bucket = category }

Affirmed == op = "get_affirmation_for_text"

(***************************************************************************)
(* C1: a text containing a risk phrase, in any letter case and at any      *)
(* position, gets the fixed helpline payload (Urgent, flag, show_helpline) *)
(* and neither the classifier nor the remote service is called.            *)
(***************************************************************************)
C1_RiskShortCircuits ==
    (Affirmed /\ ContainsRiskPhrase(user_text)) =>
        /\ outcome = "returned"
        /\ result = helpline_response
        /\ result.mood_bucket = Urgent
        /\ result.safety_flag = "flag"
        /\ result.action = "show_helpline"
        /\ classifier_calls = 0
        /\ remote_calls = 0

C1_Witness ==
    /\ Affirmed
    /\ user_text = <<"I"," ","w","a","n","t"," ","t","o"," ","K","i","l","l"," ","M","y","s","e","l","f",".">>
    /\ model = "GenerativeModel"
    /\ generate = [kind |-> "text", text |-> Happy]
    /\ result.action = "show_helpline"
    /\ classifier_calls = 0

(***************************************************************************)
(* C2: get_affirmation_for_text never raises: every call ends by returning *)
(* a result, whatever the text, the remote service and the corpus.         *)
(***************************************************************************)
C2_NeverRaises == Affirmed => outcome = "returned"

(***************************************************************************)
(* C3: classify_mood_with_gemini returns Neutral, and raises nothing, when *)
(* the remote call fails or the model is not configured; not configured,   *)
(* it attempts no remote call.                                             *)
(***************************************************************************)
C3_FailureGivesNeutral ==
    (op = "classify_mood_with_gemini" /\ (model = "None" \/ generate.kind # "text")) =>
        /\ outcome = "returned"
        /\ result.mood_bucket = Neutral
        /\ model = "None" => remote_calls = 0

C3_Witness ==
    /\ op = "classify_mood_with_gemini"
    /\ model = "GenerativeModel"
    /\ generate.kind = "timeout"
    /\ remote_calls = 1
    /\ outcome = "returned"
    /\ result.mood_bucket = Neutral

(***************************************************************************)
(* C4: the reply of the remote service is mapped to the category it equals *)
(* once trimmed, else to the first category of the fixed order whose name  *)
(* occurs in it, else to Neutral; the result is one of the 7 categories.   *)
(***************************************************************************)
C4_ReplyParsed ==
    (op = "classify_mood_with_gemini" /\ remote_calls = 1 /\ generate.kind = "text") =>
        /\ outcome = "returned"
        /\ result.mood_bucket \in MoodCategory
        /\ result.mood_bucket = CategoryOfReply(generate.text)
        /\ generate.text = <<"A","n","g","r","y">> => result.mood_bucket = Angry
        /\ generate.text = <<"I"," ","t","h","i","n","k"," ","t","h","i","s"," ","i","s"," ","A","n","g","r","y"," ","a","c","t","u","a","l","l","y">> => result.mood_bucket = Angry
        /\ generate.text = <<"B","l","o","r","p">> => result.mood_bucket = Neutral

C4_Witness ==
    /\ op = "classify_mood_with_gemini"
    /\ remote_calls = 1
    /\ generate = [kind |-> "text", text |-> <<"S","a","d",","," ","n","o","t"," ","H","a","p","p","y">>]
    /\ result.mood_bucket = Happy

(***************************************************************************)
(* C5: an empty or whitespace-only text is classified Neutral without any  *)
(* remote call, the remote service configured or not.                      *)
(***************************************************************************)
C5_BlankTextIsNeutral ==
    (op = "classify_mood_with_gemini" /\ Blank(user_text)) =>
        /\ outcome = "returned"
        /\ result.mood_bucket = Neutral
        /\ remote_calls = 0

C5_Witness ==
    /\ op = "classify_mood_with_gemini"
    /\ user_text = <<" ","\t","\n">>
    /\ model = "GenerativeModel"
    /\ generate = [kind |-> "text", text |-> Happy]
    /\ result.mood_bucket = Neutral
    /\ remote_calls = 0

(***************************************************************************)
(* C6: get_music_recommendation always returns one of the 7 categories     *)
(* with the non-empty URL the playlist map holds for that category; the    *)
(* map has an entry for every category, so the default is never used.      *)
(***************************************************************************)
C6_MusicIsTotal ==
    /\ \A category \in MoodCategory :
          \E i \in DOMAIN mood_to_playlist_map :
              mood_to_playlist_map[i][1] = category /\ mood_to_playlist_map[i][2] # ""
    /\ op = "get_music_recommendation" =>
          /\ outcome = "returned"
          /\ result.mood \in MoodCategory
          /\ result.mood = Classified
          /\ result.playlist_url # ""
          /\ \E i \in DOMAIN mood_to_playlist_map :
                /\ mood_to_playlist_map[i][1] = result.mood
                /\ mood_to_playlist_map[i][2] = result.playlist_url

C6_Witness ==
    /\ op = "get_music_recommendation"
    /\ generate = [kind |-> "text", text |-> Urgent]
    /\ result.mood = Urgent
    /\ result.playlist_url = "https://open.spotify.com/playlist/37i9dQZF1DWZrc3MTCkPzn"

(***************************************************************************)
(* C7: the trend aggregation of a sequence of check-ins gives the distinct *)
(* days of the input in chronological order as labels and, for each        *)
(* category present, exactly one series as long as the labels, whose i-th  *)
(* entry counts the check-ins of that category on the i-th day.            *)
(***************************************************************************)
DaysOf(records) == { records[k].date : k \in DOMAIN records }

MoodsOf(records) == { records[k].mood_bucket : k \in DOMAIN records }

\* a number that grows with the calendar
DayNumber(day) == day[1] * 372 + day[2] * 31 + day[3]

\* the place of a day among the days of the records, earliest first
Rank(day, records) ==
    Cardinality({ other \in DaysOf(records) : DayNumber(other) <= DayNumber(day) })

CountOn(day, mood, records) ==
    Cardinality({ k \in DOMAIN records :
                    records[k].date = day /\ records[k].mood_bucket = mood })

C8_ResultCarriesRiskLevel ==
    (Affirmed /\ outcome = "returned") =>
        /\ {"mood_bucket", "risk", "affirmation", "safety_flag"} \subseteq DOMAIN result
        /\ result.risk = (IF ContainsRiskPhrase(user_text) THEN "high" ELSE "low")

(***************************************************************************)
(* C9: for a text without a risk phrase get_affirmation_for_text returns   *)
(* the classified category and, when the corpus has records of that        *)
(* category, the affirmation text and safety flag of one such record, and  *)
(* otherwise the generic message with the safe flag.                       *)
(***************************************************************************)
FromMatchingRecord ==
    /\ result.mood_bucket = Classified
    /\ IF RecordsOf(Classified) # {}
       THEN \E k \in RecordsOf(Classified) :
               /\ full_df[k].text.type = "str"
               /\ result.affirmation = Trimmed(full_df[k].text.chars)
               /\ result.safety_flag = full_df[k].safety_flag
       ELSE /\ result.affirmation = generic_affirmation
            /\ result.safety_flag = "safe"

C9_AffirmationOfTheCategory ==
    (Affirmed /\ ~ContainsRiskPhrase(user_text)) =>
        /\ outcome = "returned"
        /\ FromMatchingRecord

\* What does hold: a call that returns returned what C9 says.
ReturnedAffirmationOfTheCategory ==
    (Affirmed /\ ~ContainsRiskPhrase(user_text) /\ outcome = "returned") =>
        FromMatchingRecord

(***************************************************************************)
(* C10: a result holds the helpline (and action show_helpline) if and only *)
(* if the text contains a risk phrase; without one, neither an Urgent      *)
(* classification nor a flagged affirmation brings it, and the flag of the *)
(* selected record is passed on as it is.                                  *)
(***************************************************************************)
C10_HelplineOnlyOnRisk ==
    (Affirmed /\ outcome = "returned") =>
        /\ ContainsRiskPhrase(user_text) =>
              /\ "helpline" \in DOMAIN result
              /\ "action" \in DOMAIN result
              /\ result.action = "show_helpline"
        /\ ~ContainsRiskPhrase(user_text) =>
              /\ "helpline" \notin DOMAIN result
              /\ "action" \notin DOMAIN result
              /\ result.mood_bucket = Classified
              /\ \/ \E k \in RecordsOf(Classified) :
                       result.safety_flag = full_df[k].safety_flag
                 \/ RecordsOf(Classified) = {} /\ result.safety_flag = "safe"

C10_Witness ==
    /\ Affirmed
    /\ ~ContainsRiskPhrase(user_text)
    /\ outcome = "returned"
    /\ result.mood_bucket = Urgent
    /\ result.safety_flag = "flag"
    /\ "helpline" \notin DOMAIN result
====
